---- MODULE Spec2Model ----
(***************************************************************************)
(* Model of the persistence and orchestration layer of the Enterprise AI   *)
(* Chat client: the IndexedDB object stores behind StorageUtils            *)
(* (src/utils/storage.ts), the React state of App and the asynchronous     *)
(* handlers that read and write them (src/App.tsx).                        *)
(*                                                                         *)
(* Scheduling.  The program is single threaded and cooperative.  Every     *)
(* StorageUtils call first awaits getDB(), i.e. an indexedDB.open request; *)
(* open requests on one database are served in the order they are issued,  *)
(* and the transaction of a call is created when its open request          *)
(* succeeds.  The model therefore keeps one FIFO `queue` of issued store   *)
(* requests.  An entry carries the continuation of the async function that *)
(* awaits it (the values its closure captured).  A step that serves the    *)
(* head of the queue performs the store operation and runs the             *)
(* continuation up to its next await.  A handler call runs the handler's   *)
(* synchronous prefix and issues its first request.  setState calls take   *)
(* effect, together with the effects of the next render, in the step that  *)
(* makes them.                                                             *)
(***************************************************************************)
EXTENDS Integers, Sequences, FiniteSets, TLC

\* ---------------------------------------------------------------- bounds
MaxKbs == 2          \* knowledge-base ids that crypto.randomUUID may return
MaxFiles == 3        \* StoredFile ids ever generated
MaxBatch == 2        \* files in one handleAddFiles call
MaxKbCalls == 4      \* knowledge-base handler calls in one behaviour
MaxAuthCalls == 3    \* submits of the Login form in one behaviour
MaxApiCalls == 4     \* registerUser / loginUser calls of other clients
MaxSends == 2        \* submits of the chat form in one behaviour
MaxAttach == 1       \* attachments of one submit
MaxMsgs == 4         \* chat message ids ever generated
MaxInsights == 2     \* SharedInsight ids that crypto.randomUUID may return
MaxQueue == 3        \* store requests waiting when feedback is given
MaxStored == 11      \* shared insights left in the database by earlier sessions

KbIds == 1..MaxKbs
InsightIds == 1..MaxInsights
Usernames == {"alice", "bob"}
KbNames == {"docs", "brand"}

VARIABLES
    users,      \* object store USERS: username -> User
    kbs,        \* object store KNOWLEDGE_BASES: id -> KnowledgeBase
    chats,      \* GLOBAL store, keys chat_history_{userId}: userId -> mapping
    storedKey,  \* GLOBAL store, key gemini_api_key: <<>> or <<key>>
    insights,   \* object store INSIGHTS: id -> SharedInsight
    app,        \* the React state of App and DatabaseManager (one field per useState)
    crashed,    \* a state updater threw while rendering: the tree is unmounted
    queue,      \* issued store requests, oldest first
    requests,   \* backend generations in flight (GeminiService.generateResponse)
    results,    \* outcome of each registerUser / loginUser call, by call number
    clock,      \* Date.now()
    gen,        \* identifiers handed out so far by crypto.randomUUID
    calls,      \* history: the knowledge-base handler calls made, in order
    done,       \* history: the calls (indices of `calls`) that have run to their end
    sent        \* history: the sends accepted by handleSendMessage

vars == <<users, kbs, chats, storedKey, insights, app, crashed, queue,
          requests, results, clock, gen, calls, done, sent>>

stores == <<users, kbs, chats, storedKey, insights>>
history == <<calls, done, sent>>

\* ---------------------------------------------------------------- values
NoUser == [id |-> 0, username |-> "", createdAt |-> 0]
NoBase == 0
EmptyMap == <<>>

\* A keyed object store is a function from the keys present to their values.
Put(store, key, value) ==
    [k \in DOMAIN store \cup {key} |-> IF k = key THEN value ELSE store[k]]
Delete(store, key) == [k \in DOMAIN store \ {key} |-> store[k]]

RECURSIVE KeyOrder(_)
KeyOrder(S) ==
    IF S = {} THEN <<>>
    ELSE LET m == CHOOSE x \in S : \A y \in S : x <= y
         IN <<m>> \o KeyOrder(S \ {m})

\* IDBObjectStore.getAll(): every value, in ascending key order.
getAll(store) ==
    LET order == KeyOrder(DOMAIN store)
    IN [i \in 1..Len(order) |-> store[order[i]]]

\* Array.prototype.find on the in-memory list: <<>> (undefined) or <<kb>>.
FindKb(list, id) == SelectSeq(list, LAMBDA k : k.id = id)

\* knowledgeBases[knowledgeBases.length - 1]: <<>> (undefined) or <<kb>>.
LastKb(list) == IF list = <<>> THEN <<>> ELSE <<list[Len(list)]>>

\* { ...kb, files: [...kb.files, ...files] }
AppendFiles(kb, files) == [kb EXCEPT !.files = kb.files \o files]

\* { ...kb, files: kb.files.filter(f => f.id !== fileId) }
RemoveFile_DropLast(kb, fileId) ==
    [kb EXCEPT !.files = SubSeq(kb.files, 1, Len(kb.files) - 1)]
RemoveFile(kb, fileId) ==
    [kb EXCEPT !.files = SelectSeq(kb.files, LAMBDA f : f.id # fileId)]

\* ---------------------------------------------------------------- React
\* A setState after the tree was unmounted changes nothing.
Commit(new) == IF crashed THEN app ELSE new
Effects(entries) == IF crashed THEN <<>> ELSE entries

\* useEffect [currentUser, apiKey]: loadUserData
LoadUserData(a) ==
    IF a.currentUser # NoUser
    THEN <<[cont |-> "loadUserData", userId |-> a.currentUser.id,
            apiKey |-> a.apiKey]>>
    ELSE <<>>

\* useEffect [knowledgeBases, isLoaded]: saveKnowledgeBase(last element)
PersistKbs(a) ==
    IF a.isLoaded
    THEN <<[cont |-> "persistKb", value |-> LastKb(a.knowledgeBases)]>>
    ELSE <<>>

\* useEffect [chatHistory, currentUser, isLoaded]: saveUserChatHistory
PersistChat_Never(a) == <<>>
PersistChat(a) ==
    IF a.currentUser # NoUser /\ a.isLoaded
    THEN <<[cont |-> "persistChat", userId |-> a.currentUser.id,
            history |-> a.chatHistory]>>
    ELSE <<>>

Serving(c) == queue # <<>> /\ Head(queue).cont = c
Rendered == ~crashed /\ app.isLoaded /\ app.currentUser # NoUser
activeBase == FindKb(app.knowledgeBases, app.activeBaseId)

\* ---------------------------------------------------------------- Init
\* The first mount on an empty database: initGlobal has issued getApiKey.
Init ==
    /\ users = <<>>
    /\ kbs = <<>>
    /\ chats = <<>>
    /\ storedKey = <<>>
    /\ insights = <<>>
    /\ app = [currentUser |-> NoUser, apiKey |-> <<>>, knowledgeBases |-> <<>>,
              activeBaseId |-> NoBase, chatHistory |-> EmptyMap,
              sharedInsights |-> <<>>, viewMode |-> "manager",
              showApiKeyModal |-> FALSE, isProcessing |-> FALSE,
              isLoaded |-> FALSE, uploadStatus |-> "idle", error |-> <<>>]
    /\ crashed = FALSE
    /\ queue = <<[cont |-> "initGlobal.key"]>>
    /\ requests = {}
    /\ results = <<>>
    /\ clock = 1
    /\ gen = [kb |-> {}, file |-> 0, msg |-> 0, user |-> 0, insight |-> {},
             attachment |-> 0]
    /\ calls = <<>>
    /\ done = {}
    /\ sent = <<>>

\* ---------------------------------------------------------------- startup
\* initGlobal: loadedKey = await getApiKey(); setApiKey(loadedKey)
initGlobal_key ==
    /\ Serving("initGlobal.key")
    /\ app' = Commit([app EXCEPT !.apiKey = storedKey])
    /\ queue' = Tail(queue) \o <<[cont |-> "initGlobal.insights"]>>
                \o Effects(IF app'.apiKey # app.apiKey THEN LoadUserData(app') ELSE <<>>)
    /\ UNCHANGED <<stores, crashed, requests, results, clock, gen, history>>

\* insights = await getSharedInsights(); setSharedInsights(insights)
initGlobal_insights ==
    /\ Serving("initGlobal.insights")
    /\ app' = Commit([app EXCEPT !.sharedInsights = getAll(insights)])
    /\ queue' = Tail(queue) \o <<[cont |-> "initGlobal.kbs"]>>
    /\ UNCHANGED <<stores, crashed, requests, results, clock, gen, history>>

\* kbs = await getKnowledgeBases(); setKnowledgeBases(kbs); setIsLoaded(true)
initGlobal_kbs ==
    /\ Serving("initGlobal.kbs")
    /\ app' = Commit([app EXCEPT !.knowledgeBases = getAll(kbs), !.isLoaded = TRUE])
    /\ queue' = Tail(queue) \o Effects(PersistKbs(app') \o PersistChat(app'))
    /\ UNCHANGED <<stores, crashed, requests, results, clock, gen, history>>

\* ---------------------------------------------------------------- effects
\* StorageUtils.put(KNOWLEDGE_BASES, kb) issued by the persistence effect.
\* store.put(undefined) throws DataError: the promise rejects, nothing is stored.
persistKb ==
    /\ Serving("persistKb")
    /\ LET v == Head(queue).value
       IN kbs' = IF v = <<>> THEN kbs ELSE Put(kbs, v[1].id, v[1])
    /\ queue' = Tail(queue)
    /\ UNCHANGED <<users, chats, storedKey, insights, app, crashed, requests,
                   results, clock, gen, history>>

\* StorageUtils.saveUserChatHistory(currentUser.id, chatHistory)
persistChat ==
    /\ Serving("persistChat")
    /\ chats' = Put(chats, Head(queue).userId, Head(queue).history)
    /\ queue' = Tail(queue)
    /\ UNCHANGED <<users, kbs, storedKey, insights, app, crashed, requests,
                   results, clock, gen, history>>

\* loadUserData: history = await getUserChatHistory(id); setChatHistory(history);
\* if (!apiKey) setShowApiKeyModal(true)
loadUserData ==
    /\ Serving("loadUserData")
    /\ LET e == Head(queue)
           loaded == IF e.userId \in DOMAIN chats THEN chats[e.userId] ELSE EmptyMap
       IN app' = Commit([app EXCEPT !.chatHistory = loaded,
                                    !.showApiKeyModal = (e.apiKey = <<>>) \/ @])
    /\ queue' = Tail(queue) \o Effects(PersistChat(app'))
    /\ UNCHANGED <<stores, crashed, requests, results, clock, gen, history>>

\* ---------------------------------------------------------------- users
\* StorageUtils.get(USERS, username): <<>> (null) or <<user>>.
GetUser(username) == IF username \in DOMAIN users THEN <<users[username]>> ELSE <<>>

\* registerUser: if (existing) throw new Error("Username already taken")
UsernameTaken_Never(existing) == FALSE
UsernameTaken(existing) == existing # <<>>

\* loginUser: if (!user) throw new Error("User not found")
UserMissing(user) == user = <<>>

Pending == [status |-> "pending", user |-> NoUser, message |-> ""]
Resolved(user) == [status |-> "ok", user |-> user, message |-> ""]
Rejected(message) == [status |-> "error", user |-> NoUser, message |-> message]

\* The Login form is shown, and no submit of it is awaiting (its `loading`).
LoginShown_Unloaded ==
    /\ ~crashed /\ app.currentUser = NoUser
    /\ \A i \in 1..Len(queue) : ~("ui" \in DOMAIN queue[i] /\ queue[i].ui)
LoginShown ==
    /\ ~crashed /\ app.isLoaded /\ app.currentUser = NoUser
    /\ \A i \in 1..Len(queue) : ~("ui" \in DOMAIN queue[i] /\ queue[i].ui)

IssueAuth(cont, username, ui, max) ==
    /\ Len(results) < max
    /\ results' = Append(results, Pending)
    /\ queue' = Append(queue, [cont |-> cont, username |-> username,
                               call |-> Len(results) + 1, ui |-> ui])
    /\ UNCHANGED <<stores, app, crashed, requests, clock, gen, history>>

\* Login.handleSubmit -> handleRegister(username) -> StorageUtils.registerUser
handleRegister(username) == LoginShown /\ IssueAuth("registerUser.get", username, TRUE, MaxAuthCalls)

\* Login.handleSubmit -> handleLogin(username) -> StorageUtils.loginUser
handleLogin(username) == LoginShown /\ IssueAuth("loginUser.get", username, TRUE, MaxAuthCalls)

\* StorageUtils.registerUser / loginUser called by another client of the same
\* database (a second tab of the application).
registerUser(username) == IssueAuth("registerUser.get", username, FALSE, MaxApiCalls)
loginUser(username) == IssueAuth("loginUser.get", username, FALSE, MaxApiCalls)

\* setCurrentUser(user) and the effects of the render that follows it.
SetCurrentUser(user) == [app EXCEPT !.currentUser = user]
UserEffects(a) == LoadUserData(a) \o PersistChat(a)

\* registerUser: existing = await get(USERS, username); throw or build newUser
\* and issue put(USERS, newUser).
registerUser_got(existing) ==
    /\ Serving("registerUser.get")
    /\ LET e == Head(queue)
           newUser == [id |-> gen.user + 1, username |-> e.username,
                       createdAt |-> clock]
       IN IF UsernameTaken(existing)
          THEN /\ results' = [results EXCEPT ![e.call] = Rejected("Username already taken")]
               /\ queue' = Tail(queue)
               /\ UNCHANGED <<clock, gen>>
          ELSE /\ queue' = Tail(queue) \o <<[cont |-> "registerUser.put", user |-> newUser,
                                            call |-> e.call, ui |-> e.ui]>>
               /\ clock' = clock + 1
               /\ gen' = [gen EXCEPT !.user = @ + 1]
               /\ UNCHANGED results
    /\ UNCHANGED <<stores, app, crashed, requests, history>>

registerUser_get == registerUser_got(GetUser(Head(queue).username))

\* await put(USERS, newUser); return newUser; handleRegister: setCurrentUser(user)
registerUser_put ==
    /\ Serving("registerUser.put")
    /\ LET e == Head(queue)
       IN /\ users' = Put(users, e.user.username, e.user)
          /\ results' = [results EXCEPT ![e.call] = Resolved(e.user)]
          /\ app' = IF e.ui THEN Commit(SetCurrentUser(e.user)) ELSE app
          /\ queue' = Tail(queue) \o (IF e.ui THEN Effects(UserEffects(app')) ELSE <<>>)
    /\ UNCHANGED <<kbs, chats, storedKey, insights, crashed, requests, clock, gen, history>>

\* loginUser: user = await get(USERS, username); throw or return user;
\* handleLogin: setCurrentUser(user); kbs = await getKnowledgeBases()
loginUser_got(user) ==
    /\ Serving("loginUser.get")
    /\ LET e == Head(queue)
       IN IF UserMissing(user)
          THEN /\ results' = [results EXCEPT ![e.call] = Rejected("User not found")]
               /\ queue' = Tail(queue)
               /\ app' = app
          ELSE /\ results' = [results EXCEPT ![e.call] = Resolved(user[1])]
               /\ app' = IF e.ui THEN Commit(SetCurrentUser(user[1])) ELSE app
               /\ queue' = Tail(queue)
                    \o (IF e.ui THEN <<[cont |-> "handleLogin.kbs", ui |-> TRUE]>> ELSE <<>>)
                    \o (IF e.ui THEN Effects(UserEffects(app')) ELSE <<>>)
    /\ UNCHANGED <<stores, crashed, requests, clock, gen, history>>

loginUser_get == loginUser_got(GetUser(Head(queue).username))

\* setKnowledgeBases(kbs); insights = await getSharedInsights()
handleLogin_gotKbs(list) ==
    /\ Serving("handleLogin.kbs")
    /\ app' = Commit([app EXCEPT !.knowledgeBases = list])
    /\ queue' = Tail(queue) \o <<[cont |-> "handleLogin.insights", ui |-> TRUE]>>
                \o Effects(PersistKbs(app'))
    /\ UNCHANGED <<stores, crashed, requests, results, clock, gen, history>>

handleLogin_kbs == handleLogin_gotKbs(getAll(kbs))

\* setSharedInsights(insights)
handleLogin_gotInsights(list) ==
    /\ Serving("handleLogin.insights")
    /\ app' = Commit([app EXCEPT !.sharedInsights = list])
    /\ queue' = Tail(queue)
    /\ UNCHANGED <<stores, crashed, requests, results, clock, gen, history>>

handleLogin_insights == handleLogin_gotInsights(getAll(insights))

\* handleLogout: setCurrentUser(null); setChatHistory({}); setActiveBaseId(null)
handleLogout ==
    /\ Rendered
    /\ app' = [app EXCEPT !.currentUser = NoUser, !.chatHistory = EmptyMap,
                          !.activeBaseId = NoBase]
    /\ queue' = queue \o UserEffects(app')
    /\ UNCHANGED <<stores, crashed, requests, results, clock, gen, history>>

\* ---------------------------------------------------------------- knowledge bases
KbHandlerConts == {"handleCreateBase.put", "handleCreateBase.list",
                   "handleDeleteBase.delete", "handleDeleteBase.list",
                   "handleAddFiles.put", "handleAddFiles.list",
                   "handleDeleteFile.put", "handleDeleteFile.list"}

\* A knowledge-base handler is between its call and its end.
KbHandlerInFlight == \E i \in 1..Len(queue) : queue[i].cont \in KbHandlerConts

\* History of a call: its arguments, what was stored and listed when it was
\* made, whether another knowledge-base handler was then in flight, and whether
\* no store request at all was then pending.
Called(kind, base, arg) ==
    [kind |-> kind, base |-> base, arg |-> arg, stored |-> kbs,
     listed |-> app.knowledgeBases, overlapped |-> KbHandlerInFlight,
     settled |-> queue = <<>>]

CallKb(kind, base, arg, entry) ==
    /\ Len(calls) < MaxKbCalls
    /\ calls' = Append(calls, Called(kind, base, arg))
    /\ queue' = Append(queue, entry @@ [call |-> Len(calls) + 1])
    /\ UNCHANGED <<done, sent>>

NewFiles(n) == [i \in 1..n |-> [id |-> gen.file + i]]

\* handleCreateBase(name): newBase = {id: randomUUID(), name, createdAt: Date.now(),
\* files: []}; await saveKnowledgeBase(newBase)
NewBase_Unnamed(id, name) == [id |-> id, name |-> "", createdAt |-> clock, files |-> <<>>]
NewBase(id, name) == [id |-> id, name |-> name, createdAt |-> clock, files |-> <<>>]

handleCreateBase(name) ==
    /\ Rendered
    /\ \E id \in KbIds \ gen.kb :
        /\ CallKb("create", id, name,
                  [cont |-> "handleCreateBase.put", kb |-> NewBase(id, name)])
        /\ gen' = [gen EXCEPT !.kb = @ \cup {id}]
    /\ clock' = clock + 1
    /\ UNCHANGED <<stores, app, crashed, requests, results>>

\* put(KNOWLEDGE_BASES, newBase) is served; getKnowledgeBases() is issued
handleCreateBase_put ==
    /\ Serving("handleCreateBase.put")
    /\ LET e == Head(queue)
       IN /\ kbs' = Put(kbs, e.kb.id, e.kb)
          /\ queue' = Tail(queue) \o <<[cont |-> "handleCreateBase.list",
                                        id |-> e.kb.id, call |-> e.call]>>
    /\ UNCHANGED <<users, chats, storedKey, insights, app, crashed, requests,
                   results, clock, gen, history>>

\* setKnowledgeBases(await getKnowledgeBases()); setActiveBaseId(newBase.id);
\* setViewMode('manager')
handleCreateBase_list ==
    /\ Serving("handleCreateBase.list")
    /\ LET e == Head(queue)
       IN /\ app' = Commit([app EXCEPT !.knowledgeBases = getAll(kbs),
                                       !.activeBaseId = e.id,
                                       !.viewMode = "manager"])
          /\ done' = done \cup {e.call}
    /\ queue' = Tail(queue) \o Effects(PersistKbs(app'))
    /\ UNCHANGED <<stores, crashed, requests, results, clock, gen, calls, sent>>

\* DatabaseManager: onDeleteDatabase(knowledgeBase.id) =
\* handleDeleteBase(id); setViewMode('manager').  The closure holds activeBaseId.
handleDeleteBase(id) ==
    /\ Rendered
    /\ activeBase # <<>> /\ app.viewMode = "manager" /\ id = app.activeBaseId
    /\ CallKb("delete", id, 0,
              [cont |-> "handleDeleteBase.delete", id |-> id,
               activeBaseId |-> app.activeBaseId])
    /\ UNCHANGED <<stores, app, crashed, requests, results, clock, gen>>

\* deleteKnowledgeBase: the delete request is placed in a readwrite transaction
\* (its completion is not awaited); getKnowledgeBases() is issued after it
DeleteKb_Keep(store, id) == store
DeleteKb(store, id) == Delete(store, id)

handleDeleteBase_delete ==
    /\ Serving("handleDeleteBase.delete")
    /\ LET e == Head(queue)
       IN /\ kbs' = DeleteKb(kbs, e.id)
          /\ queue' = Tail(queue) \o <<[e EXCEPT !.cont = "handleDeleteBase.list"]>>
    /\ UNCHANGED <<users, chats, storedKey, insights, app, crashed, requests,
                   results, clock, gen, history>>

\* setKnowledgeBases(await getKnowledgeBases());
\* if (activeBaseId === id) setActiveBaseId(null)
handleDeleteBase_list ==
    /\ Serving("handleDeleteBase.list")
    /\ LET e == Head(queue)
       IN /\ app' = Commit([app EXCEPT !.knowledgeBases = getAll(kbs),
                                       !.activeBaseId =
                                           IF e.activeBaseId = e.id THEN NoBase ELSE @])
          /\ done' = done \cup {e.call}
    /\ queue' = Tail(queue) \o Effects(PersistKbs(app'))
    /\ UNCHANGED <<stores, crashed, requests, results, clock, gen, calls, sent>>

\* DatabaseManager: onAddFiles(knowledgeBase.id, newFiles).
\* handleAddFiles: kb = knowledgeBases.find(...); if (kb) await saveKnowledgeBase(
\* {...kb, files: [...kb.files, ...files]})
handleAddFiles(baseId, n) ==
    /\ Rendered
    /\ activeBase # <<>> /\ app.viewMode = "manager" /\ baseId = app.activeBaseId
    /\ gen.file + n <= MaxFiles
    /\ LET kb == FindKb(app.knowledgeBases, baseId)
       IN /\ kb # <<>>
          /\ CallKb("addFiles", baseId, NewFiles(n),
                    [cont |-> "handleAddFiles.put", kb |-> AppendFiles(kb[1], NewFiles(n))])
    /\ gen' = [gen EXCEPT !.file = @ + n]
    /\ UNCHANGED <<stores, app, crashed, requests, results, clock>>

\* DatabaseManager.handleFileChange: the files picked, given by their sizes in
\* bytes.  A file above the ceiling throws out of the loop: setError(message),
\* setUploadStatus('idle'), and onAddFiles is not reached.  Otherwise
\* onAddFiles(knowledgeBase.id, newFiles) is called (not awaited) and
\* setUploadStatus('success') follows at once.
MAX_SIZE_MB == 50
Oversized(size) == size > MAX_SIZE_MB * 1024 * 1024
FileSizes == {1, MAX_SIZE_MB * 1024 * 1024 + 1}

handleFileChange(baseId, sizes) ==
    /\ Rendered
    /\ activeBase # <<>> /\ app.viewMode = "manager" /\ baseId = app.activeBaseId
    /\ sizes # <<>>
    /\ gen.file + Len(sizes) <= MaxFiles
    /\ IF \E i \in 1..Len(sizes) : Oversized(sizes[i])
       THEN LET first == CHOOSE i \in 1..Len(sizes) :
                            Oversized(sizes[i]) /\ \A j \in 1..(i - 1) : ~Oversized(sizes[j])
            IN /\ app' = [app EXCEPT !.uploadStatus = "idle", !.error = <<"is too large">>]
               /\ gen' = [gen EXCEPT !.file = @ + first - 1]
               /\ UNCHANGED <<queue, history>>
       ELSE LET kb == FindKb(app.knowledgeBases, baseId)
                newFiles == NewFiles(Len(sizes))
            IN /\ IF kb # <<>>
                  THEN CallKb("addFiles", baseId, newFiles,
                              [cont |-> "handleAddFiles.put",
                               kb |-> AppendFiles(kb[1], newFiles)])
                  ELSE UNCHANGED <<queue, history>>
               /\ app' = [app EXCEPT !.uploadStatus = "success", !.error = <<>>]
               /\ gen' = [gen EXCEPT !.file = @ + Len(sizes)]
    /\ UNCHANGED <<stores, crashed, requests, results, clock>>

\* setTimeout(() => setUploadStatus('idle'), 2000)
resetUploadStatus ==
    /\ Rendered /\ app.uploadStatus = "success"
    /\ app' = [app EXCEPT !.uploadStatus = "idle"]
    /\ UNCHANGED <<stores, crashed, queue, requests, results, clock, gen, history>>

\* DatabaseManager: onDeleteFile(knowledgeBase.id, file.id) for a listed file.
\* handleDeleteFile: kb = knowledgeBases.find(...); if (kb) await saveKnowledgeBase(
\* {...kb, files: kb.files.filter(f => f.id !== fileId)})
handleDeleteFile(baseId, fileId) ==
    /\ Rendered
    /\ activeBase # <<>> /\ app.viewMode = "manager" /\ baseId = app.activeBaseId
    /\ \E i \in 1..Len(activeBase[1].files) : activeBase[1].files[i].id = fileId
    /\ LET kb == FindKb(app.knowledgeBases, baseId)
       IN /\ kb # <<>>
          /\ CallKb("deleteFile", baseId, fileId,
                    [cont |-> "handleDeleteFile.put", kb |-> RemoveFile(kb[1], fileId)])
    /\ UNCHANGED <<stores, app, crashed, requests, results, clock, gen>>

\* put(KNOWLEDGE_BASES, updatedKb) is served; getKnowledgeBases() is issued
SaveUpdatedKb(cont, next) ==
    /\ Serving(cont)
    /\ LET e == Head(queue)
       IN /\ kbs' = Put(kbs, e.kb.id, e.kb)
          /\ queue' = Tail(queue) \o <<[cont |-> next, call |-> e.call]>>
    /\ UNCHANGED <<users, chats, storedKey, insights, app, crashed, requests,
                   results, clock, gen, history>>

\* setKnowledgeBases(await getKnowledgeBases())
ListUpdatedKbs(cont) ==
    /\ Serving(cont)
    /\ app' = Commit([app EXCEPT !.knowledgeBases = getAll(kbs)])
    /\ done' = done \cup {Head(queue).call}
    /\ queue' = Tail(queue) \o Effects(PersistKbs(app'))
    /\ UNCHANGED <<stores, crashed, requests, results, clock, gen, calls, sent>>

handleAddFiles_put == SaveUpdatedKb("handleAddFiles.put", "handleAddFiles.list")
handleAddFiles_list == ListUpdatedKbs("handleAddFiles.list")
handleDeleteFile_put == SaveUpdatedKb("handleDeleteFile.put", "handleDeleteFile.list")
handleDeleteFile_list == ListUpdatedKbs("handleDeleteFile.list")

\* Sidebar: onSelectBase(id) = setActiveBaseId(id); setViewMode('chat')
onSelectBase(id) ==
    /\ Rendered
    /\ FindKb(app.knowledgeBases, id) # <<>>
    /\ app' = [app EXCEPT !.activeBaseId = id, !.viewMode = "chat"]
    /\ app' # app
    /\ UNCHANGED <<stores, crashed, queue, requests, results, clock, gen, history>>

\* ChatArea: onViewManager = setViewMode('manager')
onViewManager ==
    /\ Rendered
    /\ activeBase # <<>> /\ app.viewMode = "chat"
    /\ app' = [app EXCEPT !.viewMode = "manager"]
    /\ UNCHANGED <<stores, crashed, queue, requests, results, clock, gen, history>>

\* ---------------------------------------------------------------- API key
\* ApiKeyInput (shown while showApiKeyModal): onSave(k) =
\* await StorageUtils.setApiKey(k); setApiKey(k); setShowApiKeyModal(false)
onSave(key) ==
    /\ Rendered /\ app.showApiKeyModal
    /\ \A i \in 1..Len(queue) : queue[i].cont # "onSave.put"
    /\ queue' = Append(queue, [cont |-> "onSave.put", key |-> key])
    /\ UNCHANGED <<stores, app, crashed, requests, results, clock, gen, history>>

onSave_put ==
    /\ Serving("onSave.put")
    /\ LET e == Head(queue)
       IN /\ storedKey' = <<e.key>>
          /\ app' = Commit([app EXCEPT !.apiKey = <<e.key>>, !.showApiKeyModal = FALSE])
    /\ queue' = Tail(queue)
                \o Effects(IF app'.apiKey # app.apiKey THEN LoadUserData(app') ELSE <<>>)
    /\ UNCHANGED <<users, kbs, chats, insights, crashed, requests, results, clock,
                   gen, history>>

\* ---------------------------------------------------------------- chat
\* A text is a sequence of characters; the characters of a fixed phrase are
\* kept together as one element.
\* answer.substring(0, 200)
InsightLimit == 200

UserTexts == {<<"q">>}
ResponseTexts == {<<"a">>}
\* A response longer than the excerpt an insight keeps of it.
LongAnswer == [i \in 1..(InsightLimit + 1) |-> "x"]
ErrorMessages == {<<>>, <<"quota">>}

conversation(a, base) ==
    IF base \in DOMAIN a.chatHistory THEN a.chatHistory[base] ELSE <<>>

\* ChatArea.handleSubmit: if ((!input.trim() && pendingAttachments.length === 0)
\* || isProcessing) return
CanSubmit_IgnoreProcessing(text, attachments, isProcessing) ==
    ~(text = <<>> /\ attachments = <<>>)
CanSubmit(text, attachments, isProcessing) ==
    ~((text = <<>> /\ attachments = <<>>) \/ isProcessing)

\* handleSendMessage: if (!apiKey || !activeBaseId) return; currentBase = find;
\* if (!currentBase) return
CanSend(a) ==
    /\ a.apiKey # <<>> /\ a.activeBaseId # NoBase
    /\ FindKb(a.knowledgeBases, a.activeBaseId) # <<>>

UserMessage(id, text, attachments) ==
    [id |-> id, role |-> "user", text |-> text, attachments |-> attachments,
     citations |-> <<>>, timestamp |-> clock, isError |-> FALSE,
     feedback |-> "none"]

\* modelMsg = {id, role: 'model', text: responseText, citations, timestamp}
\* An optional field is <<>> when absent and <<value>> when set: the citations
\* of modelMsg are always set, to a list that may be empty.
ModelMessage(id, text, citations) ==
    [id |-> id, role |-> "model", text |-> text, attachments |-> <<>>,
     citations |-> <<citations>>, timestamp |-> clock, isError |-> FALSE,
     feedback |-> "none"]

\* GeminiService.generateResponse (catch):
\* throw new Error(error.message || "Failed to generate response")
Thrown(message) == IF message = <<>> THEN <<"Failed to generate response">> ELSE message

\* errorMsg = {id, role: 'model', text: `Error: ${error.message}`, timestamp,
\* isError: true}
ErrorMessage(id, message) ==
    [id |-> id, role |-> "model", text |-> <<"Error: ">> \o message,
     attachments |-> <<>>, citations |-> <<>>, timestamp |-> clock,
     isError |-> TRUE, feedback |-> "none"]

Attachments(n) == [i \in 1..n |-> [id |-> gen.attachment + i]]

ChatShown == Rendered /\ activeBase # <<>> /\ app.viewMode = "chat"

\* The insights injected into the system instruction
\* sharedInsights.slice(-10)
InsightWindow == 10

\* The bullet character U+2022 and the space after it.
Bullet == "(U+2022) "

slice(list, n) ==
    SubSeq(list, IF Len(list) > n THEN Len(list) - n + 1 ELSE 1, Len(list))

\* lines.join('\n')
RECURSIVE join(_)
join(lines) ==
    IF lines = <<>> THEN <<>>
    ELSE IF Len(lines) = 1 THEN lines[1]
    ELSE lines[1] \o <<"\n">> \o join(Tail(lines))

\* insightText = sharedInsights.length > 0
\*   ? `\n\nTEAM SHARED LEARNINGS (Prioritize these patterns):\n${
\*        sharedInsights.slice(-10).map(i => `<U+2022> ${i.content}`).join('\n')}`
\*   : ""
insightText(sharedInsights) ==
    IF Len(sharedInsights) > 0
    THEN LET last == slice(sharedInsights, InsightWindow)
         IN <<"\n\nTEAM SHARED LEARNINGS (Prioritize these patterns):\n">>
                \o join([i \in 1..Len(last) |-> <<Bullet>> \o last[i].content])
    ELSE <<>>

\* The turns sent to the backend.  An inline part stands for {inlineData:
\* {mimeType, data}} of the attachment or knowledge-base file it was made from.
\* parts of a prior message: one per attachment, then {text} if (m.text)
TurnParts(m) ==
    [i \in 1..Len(m.attachments) |-> [inlineData |-> [attachment |-> m.attachments[i].id]]]
        \o (IF m.text # <<>> THEN <<[text |-> m.text]>> ELSE <<>>)

\* apiHistory = updatedHistory.slice(0, -1).map(m => ({role: m.role, parts}))
apiHistory_Whole(updatedHistory) ==
    [i \in 1..Len(updatedHistory) |->
        [role |-> updatedHistory[i].role, parts |-> TurnParts(updatedHistory[i])]]
apiHistory(updatedHistory) ==
    [i \in 1..(Len(updatedHistory) - 1) |->
        [role |-> updatedHistory[i].role, parts |-> TurnParts(updatedHistory[i])]]

\* contents = [...history, {role: 'user', parts: [...knowledgeBaseParts,
\*                                                ...attachmentParts, textPart]}]
contents(turns, files, attachments, prompt) ==
    Append(turns,
           [role |-> "user",
            parts |-> [i \in 1..Len(files) |-> [inlineData |-> [file |-> files[i].id]]]
                      \o [i \in 1..Len(attachments) |->
                             [inlineData |-> [attachment |-> attachments[i].id]]]
                      \o <<[text |-> prompt]>>])

\* History of a submit: who made it, where, whether a generation was in flight,
\* whether it got as far as the backend call, and how that call ended.
Submitted(text, accepted, id) ==
    [user |-> app.currentUser.id, base |-> app.activeBaseId, text |-> text,
     busy |-> requests # {}, accepted |-> accepted, msgId |-> id, reply |-> 0,
     outcome |-> "none", error |-> <<>>]

\* ChatArea.handleSubmit -> handleSendMessage(text, model, attachments, web):
\* updatedHistory = [...(chatHistory[activeBaseId] || []), userMsg];
\* setChatHistory(prev => ({...prev, [activeBaseId]: updatedHistory}));
\* setIsProcessing(true); ... await GeminiService.generateResponse(...)
handleSubmit(text, n) ==
    /\ ChatShown
    /\ Len(sent) < MaxSends
    /\ LET attachments == Attachments(n)
           id == gen.msg + 1
           base == app.activeBaseId
           updatedHistory == Append(conversation(app, base),
                                    UserMessage(id, text, attachments))
       IN IF CanSubmit(text, attachments, app.isProcessing) /\ CanSend(app)
          THEN /\ app' = [app EXCEPT !.chatHistory = Put(@, base, updatedHistory),
                                     !.isProcessing = TRUE]
               /\ queue' = queue \o PersistChat(app')
               /\ requests' = requests \cup
                     {[send |-> Len(sent) + 1, base |-> base, msgId |-> id,
                       insightText |-> insightText(app.sharedInsights),
                       contents |-> contents(apiHistory(updatedHistory),
                                             activeBase[1].files, attachments, text)]}
               /\ gen' = [gen EXCEPT !.msg = id, !.attachment = @ + n]
               /\ clock' = clock + 1
               /\ sent' = Append(sent, Submitted(text, TRUE, id))
          ELSE /\ sent' = Append(sent, Submitted(text, FALSE, 0))
               /\ UNCHANGED <<app, queue, requests, gen, clock>>
    /\ UNCHANGED <<stores, crashed, results, calls, done>>

\* setChatHistory(prev => ({...prev, [activeBaseId]: [...prev[activeBaseId], msg]}));
\* finally setIsProcessing(false).  Spreading prev[activeBaseId] when the mapping
\* has no such entry throws in the updater: the render fails and, there being no
\* error boundary, React unmounts the tree.
AppendReply(a, base, msg) ==
    [a EXCEPT !.chatHistory = Put(@, base, Append(a.chatHistory[base], msg)),
              !.isProcessing = FALSE]

Respond(r, msg, outcome, error) ==
    /\ requests' = requests \ {r}
    /\ gen' = [gen EXCEPT !.msg = msg.id]
    /\ clock' = clock + 1
    /\ sent' = [sent EXCEPT ![r.send].reply = msg.id, ![r.send].outcome = outcome,
                            ![r.send].error = error]
    /\ IF crashed
       THEN UNCHANGED <<app, crashed, queue>>
       ELSE IF r.base \in DOMAIN app.chatHistory
            THEN /\ app' = AppendReply(app, r.base, msg)
                 /\ queue' = queue \o PersistChat(app')
                 /\ UNCHANGED crashed
            ELSE /\ crashed' = TRUE
                 /\ UNCHANGED <<app, queue>>
    /\ UNCHANGED <<stores, results, calls, done>>

\* ---- citations (GeminiService.generateResponse, after the backend call)
\* A response is a sequence of characters in which "[Source:" and "Context:"
\* are kept as one element each; " " is the only white space.
trim(t) ==
    LET inked == {i \in 1..Len(t) : t[i] # " "}
    IN IF inked = {} THEN <<>>
       ELSE SubSeq(t, CHOOSE i \in inked : \A j \in inked : i <= j,
                      CHOOSE i \in inked : \A j \in inked : j <= i)

\* The first position from i on where text holds an element outside `skipped`
\* (Len(text) + 1 when there is none).
Skip(text, i, skipped) ==
    LET stops == {k \in i..Len(text) : text[k] \notin skipped}
    IN IF stops = {} THEN Len(text) + 1
       ELSE CHOOSE k \in stops : \A j \in stops : k <= j

At(text, i) == IF i \in 1..Len(text) THEN text[i] ELSE ""

\* One attempt of /\[Source:\s*([^,\]]+)(?:,\s*Context:\s*"([^"]+)")?\]/ at
\* position i: <<>> or the match, with its captures and its last position.
\* \s*([^,\]]+) takes the longest run without "," and "]", which must not be
\* empty; the optional group either matches whole or the run must end at "]".
NoContext == <<>>
MatchAt(text, i) ==
    IF At(text, i) # "[Source:" THEN <<>>
    ELSE LET e == Skip(text, i + 1, {x \in {text[k] : k \in 1..Len(text)} : x \notin {",", "]"}})
             c == Skip(text, e + 1, {" "})
             q == Skip(text, c + 1, {" "})
             f == Skip(text, q + 1, {x \in {text[k] : k \in 1..Len(text)} : x # "\""})
             s == Skip(text, i + 1, {" "})
             source == IF s < e THEN SubSeq(text, s, e - 1) ELSE <<" ">>
         IN IF e = i + 1 THEN <<>>
            ELSE IF At(text, e) = "]"
            THEN <<[source |-> source, context |-> NoContext, last |-> e]>>
            ELSE IF /\ At(text, e) = "," /\ At(text, c) = "Context:"
                    /\ At(text, q) = "\"" /\ f > q + 1
                    /\ At(text, f) = "\"" /\ At(text, f + 1) = "]"
            THEN <<[source |-> source, context |-> <<SubSeq(text, q + 1, f - 1)>>,
                    last |-> f + 1]>>
            ELSE <<>>

\* The first position from i on where the regex matches (0 when there is none).
NextMatch(text, i) ==
    LET starts == {k \in i..Len(text) : MatchAt(text, k) # <<>>}
    IN IF starts = {} THEN 0 ELSE CHOOSE k \in starts : \A j \in starts : k <= j

\* while ((match = regex.exec(text)) !== null): the matches from position i on
RECURSIVE exec(_, _)
exec(text, i) ==
    LET k == NextMatch(text, i)
    IN IF k = 0 THEN <<>>
       ELSE MatchAt(text, k) \o exec(text, MatchAt(text, k)[1].last + 1)

\* source = match[1].trim(); context = match[2] ? match[2].trim()
\*                                              : "Reference found in document"
Cited(match) ==
    [source |-> trim(match.source),
     context |-> IF match.context = NoContext THEN <<"Reference found in document">>
                 ELSE trim(match.context[1])]

\* key = `${source}-${context}`
CitationKey(citation) == citation.source \o <<"-">> \o citation.context

\* if (!seen.has(key)) { citations.push({source, context}); seen.add(key) }
RECURSIVE Collect(_, _, _)
Collect(matches, citations, seen) ==
    IF matches = <<>> THEN citations
    ELSE LET citation == Cited(Head(matches))
             key == CitationKey(citation)
         IN IF key \in seen THEN Collect(Tail(matches), citations, seen)
            ELSE Collect(Tail(matches), Append(citations, citation), seen \cup {key})

\* text.replace(regex, '')
RECURSIVE replace(_, _)
replace(text, i) ==
    LET k == NextMatch(text, i)
    IN IF k = 0 THEN SubSeq(text, i, Len(text))
       ELSE SubSeq(text, i, k - 1) \o replace(text, MatchAt(text, k)[1].last + 1)

\* let text = response.text || "No response generated."; ...
\* return {text: citations.length > 0 ? cleanedText : text, citations}
Generated(responseText) ==
    LET text == IF responseText = <<>> THEN <<"No response generated.">> ELSE responseText
        citations == Collect(exec(text, 1), <<>>, {})
    IN [text |-> IF Len(citations) > 0 THEN trim(replace(text, 1)) ELSE text,
        citations |-> citations]

\* The backend call returns: {text: responseText, citations}.
generateResponse_ok(r, text) ==
    Respond(r, ModelMessage(gen.msg + 1, Generated(text).text, Generated(text).citations),
            "ok", <<>>)

\* The backend call throws: generateResponse rethrows, handleSendMessage catches.
generateResponse_error(r, message) ==
    Respond(r, ErrorMessage(gen.msg + 1, Thrown(message)), "error", Thrown(message))

\* ---------------------------------------------------------------- feedback

\* content: `Q: ${question}\nA: ${answer.substring(0, 200)}...`
InsightContent_Untruncated(question, answer) ==
    <<"Q: ">> \o question \o <<"\nA: ">> \o answer \o <<"...">>
InsightContent(question, answer) ==
    <<"Q: ">> \o question \o <<"\nA: ">>
        \o SubSeq(answer, 1, IF Len(answer) < InsightLimit THEN Len(answer) ELSE InsightLimit)
        \o <<"...">>

\* history.findIndex(m => m.id === messageId): 0 based, -1 when absent
findIndex(msgs, id) ==
    IF \E i \in 1..Len(msgs) : msgs[i].id = id
    THEN (CHOOSE i \in 1..Len(msgs) :
              msgs[i].id = id /\ \A j \in 1..(i - 1) : msgs[j].id # id) - 1
    ELSE -1

SetFeedback_All(msgs, id, type) ==
    [i \in 1..Len(msgs) |-> [msgs[i] EXCEPT !.feedback = type]]
SetFeedback(msgs, id, type) ==
    [i \in 1..Len(msgs) |-> IF msgs[i].id = id THEN [msgs[i] EXCEPT !.feedback = type]
                            ELSE msgs[i]]

\* ChatArea: onFeedback(msg.id, type) on a model message of the conversation shown.
\* handleFeedback: setChatHistory(prev => ...map...); if thumbs_up and the message
\* is not the first, await addSharedInsight(insight)
handleFeedback(messageId, type) ==
    /\ ChatShown
    /\ Len(queue) < MaxQueue
    /\ LET base == app.activeBaseId
           msgs == conversation(app, base)
           msgIndex == findIndex(msgs, messageId)
           content == InsightContent(msgs[msgIndex].text, msgs[msgIndex + 1].text)
       IN /\ msgIndex >= 0 /\ msgs[msgIndex + 1].role = "model"
          /\ app' = [app EXCEPT !.chatHistory = Put(@, base, SetFeedback(msgs, messageId, type))]
          /\ IF type = "thumbs_up" /\ msgIndex > 0
             THEN \E id \in InsightIds \ gen.insight :
                  /\ queue' = queue \o PersistChat(app')
                        \o <<[cont |-> "handleFeedback.put",
                              insight |-> [id |-> id, content |-> content,
                                           timestamp |-> clock, sourceBaseId |-> base]]>>
                  /\ gen' = [gen EXCEPT !.insight = @ \cup {id}]
                  /\ clock' = clock + 1
             ELSE /\ queue' = queue \o PersistChat(app')
                  /\ UNCHANGED <<gen, clock>>
    /\ UNCHANGED <<stores, crashed, requests, results, history>>

\* addSharedInsight: put(INSIGHTS, insight), the store's key path being 'id'
AddInsight_ByContent(store, insight) ==
    IF \E k \in DOMAIN store : store[k].content = insight.content
    THEN store
    ELSE Put(store, insight.id, insight)
AddInsight(store, insight) == Put(store, insight.id, insight)

\* put(INSIGHTS, insight) is served; getSharedInsights() is issued
handleFeedback_put ==
    /\ Serving("handleFeedback.put")
    /\ insights' = AddInsight(insights, Head(queue).insight)
    /\ queue' = Tail(queue) \o <<[cont |-> "handleFeedback.list"]>>
    /\ UNCHANGED <<users, kbs, chats, storedKey, app, crashed, requests, results,
                   clock, gen, history>>

\* setSharedInsights(await getSharedInsights())
handleFeedback_list ==
    /\ Serving("handleFeedback.list")
    /\ app' = Commit([app EXCEPT !.sharedInsights = getAll(insights)])
    /\ queue' = Tail(queue)
    /\ UNCHANGED <<stores, crashed, requests, results, clock, gen, history>>

\* ---------------------------------------------------------------- store faults
\* StorageUtils.put: req.onerror = () => reject(req.error).  Nothing is written
\* and the promise rejects: a handler awaiting it stops there, and the rejection
\* of a put issued by a persistence effect has no listener.
AwaitedPuts == {"onSave.put", "registerUser.put", "handleCreateBase.put",
                "handleAddFiles.put", "handleDeleteFile.put", "handleFeedback.put"}
EffectPuts == {"persistKb", "persistChat"}

put_onerror ==
    /\ queue # <<>> /\ Head(queue).cont \in AwaitedPuts \cup EffectPuts
    /\ queue' = Tail(queue)
    /\ results' = IF Head(queue).cont = "registerUser.put"
                  THEN [results EXCEPT ![Head(queue).call] = Rejected("put failed")]
                  ELSE results
    /\ UNCHANGED <<stores, app, crashed, requests, clock, gen, history>>

\* StorageUtils.deleteKnowledgeBase: the delete request fails.  The function
\* neither awaits the request nor listens to it or to its transaction, so its
\* promise resolves and handleDeleteBase goes on.
deleteKnowledgeBase_error ==
    /\ Serving("handleDeleteBase.delete")
    /\ queue' = Tail(queue) \o <<[Head(queue) EXCEPT !.cont = "handleDeleteBase.list"]>>
    /\ UNCHANGED <<stores, app, crashed, requests, results, clock, gen, history>>

\* StorageUtils.get: req.onerror = () => resolve(null);
\* StorageUtils.getAll: req.onerror = () => resolve([])
get_onerror(store, key) == <<>>
getAll_onerror_Listed(store) == getAll(store)
getAll_onerror(store) == <<>>

registerUser_get_onerror == registerUser_got(get_onerror(users, Head(queue).username))
loginUser_get_onerror == loginUser_got(get_onerror(users, Head(queue).username))
handleLogin_kbs_onerror == handleLogin_gotKbs(getAll_onerror(kbs))
handleLogin_insights_onerror == handleLogin_gotInsights(getAll_onerror(insights))

\* StorageUtils.getDB: request.onerror = () => reject(request.error).  The
\* get or getAll that initGlobal is awaiting rejects at `await getDB()`, so
\* initGlobal rejects there: what follows, setIsLoaded(true) included, is not run.
StartupConts == {"initGlobal.key", "initGlobal.insights", "initGlobal.kbs"}
getDB_onerror ==
    /\ queue # <<>> /\ Head(queue).cont \in StartupConts
    /\ queue' = Tail(queue)
    /\ UNCHANGED <<stores, app, crashed, requests, results, clock, gen, history>>

\* ---------------------------------------------------------------- specifications
Startup == initGlobal_key \/ initGlobal_insights \/ initGlobal_kbs

EffectSteps == persistKb \/ persistChat \/ loadUserData

\* The knowledge-base handlers, with one signed-in user.
NextKB ==
    \/ Startup
    \/ EffectSteps
    \/ handleRegister("alice") \/ registerUser_get \/ registerUser_put
    \/ \E name \in KbNames : handleCreateBase(name)
    \/ handleCreateBase_put \/ handleCreateBase_list
    \/ \E id \in KbIds : handleDeleteBase(id)
    \/ handleDeleteBase_delete \/ handleDeleteBase_list
    \/ \E id \in KbIds, n \in 1..MaxBatch : handleAddFiles(id, n)
    \/ handleAddFiles_put \/ handleAddFiles_list
    \/ \E id \in KbIds, f \in 1..MaxFiles : handleDeleteFile(id, f)
    \/ handleDeleteFile_put \/ handleDeleteFile_list
    \/ \E id \in KbIds : onSelectBase(id)
    \/ onViewManager

SpecKB == Init /\ [][NextKB]_vars

\* registerUser and loginUser called by several clients of one database.
NextUsers ==
    \/ Startup
    \/ persistKb
    \/ \E u \in Usernames : registerUser(u)
    \/ \E u \in Usernames : loginUser(u)
    \/ registerUser_get \/ registerUser_put \/ loginUser_get

SpecUsers == Init /\ [][NextUsers]_vars

\* One account: the API key, one knowledge base, chat.
Next ==
    \/ Startup
    \/ EffectSteps
    \/ handleRegister("alice") \/ handleLogin("alice")
    \/ registerUser_get \/ registerUser_put
    \/ loginUser_get \/ handleLogin_kbs \/ handleLogin_insights
    \/ handleLogout
    \/ onSave("key") \/ onSave_put
    \/ (calls = <<>> /\ handleCreateBase("docs"))
    \/ handleCreateBase_put \/ handleCreateBase_list
    \/ \E id \in KbIds : onSelectBase(id)
    \/ \E text \in UserTexts \cup {<<>>}, n \in 0..MaxAttach : handleSubmit(text, n)
    \/ \E r \in requests, text \in ResponseTexts : generateResponse_ok(r, text)
    \/ \E r \in requests, m \in ErrorMessages : generateResponse_error(r, m)

Spec == Init /\ [][Next]_vars

\* Two accounts sharing one knowledge base, created while no store request is
\* pending: chat.
NextPrivacy ==
    \/ Startup
    \/ EffectSteps
    \/ \E u \in Usernames : handleRegister(u)
    \/ \E u \in Usernames : handleLogin(u)
    \/ registerUser_get \/ registerUser_put
    \/ loginUser_get \/ handleLogin_kbs \/ handleLogin_insights
    \/ handleLogout
    \/ onSave("key") \/ onSave_put
    \/ (calls = <<>> /\ queue = <<>> /\ handleCreateBase("docs"))
    \/ handleCreateBase_put \/ handleCreateBase_list
    \/ \E id \in KbIds : onSelectBase(id)
    \/ handleSubmit(<<"q">>, 0)
    \/ \E r \in requests, text \in ResponseTexts : generateResponse_ok(r, text)
    \/ \E r \in requests : generateResponse_error(r, <<"quota">>)

SpecPrivacy == Init /\ [][NextPrivacy]_vars

\* One account: chat, long and short answers, feedback on the answers.
NextFeedback ==
    \/ Startup
    \/ EffectSteps
    \/ handleRegister("alice")
    \/ registerUser_get \/ registerUser_put
    \/ handleLogout
    \/ onSave("key") \/ onSave_put
    \/ (calls = <<>> /\ queue = <<>> /\ handleCreateBase("docs"))
    \/ handleCreateBase_put \/ handleCreateBase_list
    \/ \E id \in KbIds : onSelectBase(id)
    \/ handleSubmit(<<"q">>, 0)
    \/ \E r \in requests, text \in ResponseTexts \cup {LongAnswer} : generateResponse_ok(r, text)
    \/ \E id \in 1..MaxMsgs, type \in {"thumbs_up", "thumbs_down"} : handleFeedback(id, type)
    \/ handleFeedback_put \/ handleFeedback_list

SpecFeedback == Init /\ [][NextFeedback]_vars

\* One account and one question: feedback on the answer, then the deletion of
\* the knowledge base and logout.
NextAccumulate ==
    \/ Startup \/ EffectSteps
    \/ handleRegister("alice")
    \/ registerUser_get \/ registerUser_put
    \/ handleLogout
    \/ onSave("key") \/ onSave_put
    \/ (calls = <<>> /\ queue = <<>> /\ handleCreateBase("docs"))
    \/ handleCreateBase_put \/ handleCreateBase_list
    \/ \E id \in KbIds : onSelectBase(id)
    \/ (sent = <<>> /\ handleSubmit(<<"q">>, 0))
    \/ \E r \in requests : generateResponse_ok(r, <<"a">>)
    \/ \E id \in 1..MaxMsgs, type \in {"thumbs_up", "thumbs_down"} : handleFeedback(id, type)
    \/ handleFeedback_put \/ handleFeedback_list
    \/ (queue = <<>> /\ onViewManager)
    \/ \E id \in KbIds : handleDeleteBase(id)
    \/ handleDeleteBase_delete \/ handleDeleteBase_list

SpecAccumulate == Init /\ [][NextAccumulate]_vars

\* Responses that cite their sources.
Marker(source, context) ==
    <<"[Source:", " ">> \o source \o <<",", " ", "Context:", " ", "\"">>
        \o context \o <<"\"", "]">>

CitedTexts ==
    {<<"a">>,
     <<"[Source:", " ", "a", "]", " ", "x">>,
     <<"[Source:", "a", ",", "x", "]">>,
     <<"x", " ">> \o Marker(<<"a">>, <<"c">>) \o <<" ", "y", " ">> \o Marker(<<"a">>, <<"c">>),
     Marker(<<"a">>, <<"c">>) \o Marker(<<"b">>, <<"c">>) \o <<"x">>,
     Marker(<<"a">>, <<"b">>) \o <<"x">> \o Marker(<<"a">>, <<"c">>),
     Marker(<<"a", "-", "b">>, <<"c">>) \o <<"x">> \o Marker(<<"a">>, <<"b", "-", "c">>)}

\* One account and one question, answered with citations.
NextCitations ==
    \/ Startup \/ EffectSteps
    \/ handleRegister("alice")
    \/ registerUser_get \/ registerUser_put
    \/ onSave("key") \/ onSave_put
    \/ (calls = <<>> /\ queue = <<>> /\ handleCreateBase("docs"))
    \/ handleCreateBase_put \/ handleCreateBase_list
    \/ \E id \in KbIds : onSelectBase(id)
    \/ (sent = <<>> /\ handleSubmit(<<"q">>, 0))
    \/ \E r \in requests, text \in CitedTexts : generateResponse_ok(r, text)

SpecCitations == Init /\ [][NextCitations]_vars

\* One account and one knowledge base with uploads and deletions, where any
\* put and any delete may fail.
NextWriteFaults ==
    \/ Startup \/ EffectSteps
    \/ handleRegister("alice")
    \/ registerUser_get \/ registerUser_put
    \/ (calls = <<>> /\ queue = <<>> /\ handleCreateBase("docs"))
    \/ handleCreateBase_put \/ handleCreateBase_list
    \/ \E id \in KbIds, sizes \in [1..1 -> FileSizes] \cup [1..2 -> FileSizes] :
          handleFileChange(id, sizes)
    \/ resetUploadStatus
    \/ handleAddFiles_put \/ handleAddFiles_list
    \/ \E id \in KbIds, f \in 1..MaxFiles : handleDeleteFile(id, f)
    \/ handleDeleteFile_put \/ handleDeleteFile_list
    \/ \E id \in KbIds : handleDeleteBase(id)
    \/ handleDeleteBase_delete \/ handleDeleteBase_list
    \/ put_onerror
    \/ deleteKnowledgeBase_error

SpecWriteFaults == Init /\ [][NextWriteFaults]_vars

\* One account, one knowledge base with an uploaded file, and a conversation
\* with attachments, answers and errors.
NextTurns ==
    \/ Startup \/ EffectSteps
    \/ handleRegister("alice")
    \/ registerUser_get \/ registerUser_put
    \/ onSave("key") \/ onSave_put
    \/ (calls = <<>> /\ queue = <<>> /\ handleCreateBase("docs"))
    \/ handleCreateBase_put \/ handleCreateBase_list
    \/ \E id \in KbIds : (Len(calls) = 1 /\ queue = <<>> /\ handleAddFiles(id, 1))
    \/ handleAddFiles_put \/ handleAddFiles_list
    \/ \E id \in KbIds : onSelectBase(id)
    \/ \E text \in UserTexts \cup {<<>>}, n \in 0..MaxAttach : handleSubmit(text, n)
    \/ \E r \in requests : generateResponse_ok(r, <<"a">>)
    \/ \E r \in requests : generateResponse_error(r, <<"quota">>)

SpecTurns == Init /\ [][NextTurns]_vars

\* One account that logs out and in again: chat, thumbs-up on the answers.
NextRelogin ==
    \/ Startup
    \/ EffectSteps
    \/ handleRegister("alice") \/ handleLogin("alice")
    \/ registerUser_get \/ registerUser_put
    \/ loginUser_get \/ handleLogin_kbs \/ handleLogin_insights
    \/ handleLogout
    \/ onSave("key") \/ onSave_put
    \/ (calls = <<>> /\ queue = <<>> /\ handleCreateBase("docs"))
    \/ handleCreateBase_put \/ handleCreateBase_list
    \/ \E id \in KbIds : onSelectBase(id)
    \/ handleSubmit(<<"q">>, 0)
    \/ \E r \in requests : generateResponse_ok(r, <<"a">>)
    \/ \E id \in 1..MaxMsgs : handleFeedback(id, "thumbs_up")
    \/ handleFeedback_put \/ handleFeedback_list

SpecRelogin == Init /\ [][NextRelogin]_vars

\* A page load on the database earlier sessions left: bob's account, the key, a
\* knowledge base with his conversation, and n insights of a knowledge base
\* deleted since.  The ids
\* are random UUIDs, so their order is either that of the timestamps or the
\* opposite one.
StoredInsight(id, timestamp) ==
    [id |-> id, content |-> InsightContent(<<"q">>, [k \in 1..id |-> "a"]),
     timestamp |-> timestamp, sourceBaseId |-> 1]

\* bob's stored mapping: a question and its answer on knowledge base 2.
StoredChats ==
    [b \in {2} |->
        <<[id |-> 1, role |-> "user", text |-> <<"q">>, attachments |-> <<>>,
           citations |-> <<>>, timestamp |-> 0, isError |-> FALSE, feedback |-> "none"],
          [id |-> 2, role |-> "model", text |-> <<"a">>, attachments |-> <<>>,
           citations |-> <<<<>>>>, timestamp |-> 0, isError |-> FALSE,
           feedback |-> "none"]>>]

InitContext ==
    \E n \in 0..MaxStored, reversed \in BOOLEAN :
        /\ users = [u \in {"bob"} |-> [id |-> 1, username |-> "bob", createdAt |-> 0]]
        /\ kbs = [b \in {2} |-> [id |-> 2, name |-> "docs", createdAt |-> 0,
                                 files |-> <<>>]]
        /\ chats = [u \in {1} |-> StoredChats]
        /\ storedKey = <<"key">>
        /\ insights = [id \in 1..n |->
                          StoredInsight(id, IF reversed THEN n + 1 - id ELSE id)]
        /\ app = [currentUser |-> NoUser, apiKey |-> <<>>, knowledgeBases |-> <<>>,
                  activeBaseId |-> NoBase, chatHistory |-> EmptyMap,
                  sharedInsights |-> <<>>, viewMode |-> "manager",
                  showApiKeyModal |-> FALSE, isProcessing |-> FALSE,
                  isLoaded |-> FALSE, uploadStatus |-> "idle", error |-> <<>>]
        /\ crashed = FALSE
        /\ queue = <<[cont |-> "initGlobal.key"]>>
        /\ requests = {}
        /\ results = <<>>
        /\ clock = n + 1
        /\ gen = [kb |-> {1, 2}, file |-> 0, msg |-> 2, user |-> 1,
                  insight |-> 1..n, attachment |-> 0]
        /\ calls = <<>>
        /\ done = {}
        /\ sent = <<>>

NextContext ==
    \/ Startup
    \/ EffectSteps
    \/ handleLogin("bob")
    \/ loginUser_get \/ handleLogin_kbs \/ handleLogin_insights
    \/ \E id \in KbIds : onSelectBase(id)
    \/ handleSubmit(<<"q">>, 0)
    \/ \E r \in requests : generateResponse_ok(r, <<"a">>)

SpecContext == InitContext /\ [][NextContext]_vars

\* A page load on an existing database that may fail to open, then login,
\* registration and chat.
NextOpenFault ==
    \/ Startup
    \/ getDB_onerror
    \/ EffectSteps
    \/ handleRegister("alice") \/ handleLogin("bob")
    \/ registerUser_get \/ registerUser_put
    \/ loginUser_get \/ handleLogin_kbs \/ handleLogin_insights
    \/ handleLogout
    \/ \E id \in KbIds : onSelectBase(id)
    \/ (sent = <<>> /\ handleSubmit(<<"q">>, 0))
    \/ \E r \in requests : generateResponse_ok(r, <<"a">>)

SpecOpenFault == InitContext /\ [][NextOpenFault]_vars

\* A page load on an existing database, logins and logouts, and nothing else.
NextLogin ==
    \/ Startup
    \/ EffectSteps
    \/ handleLogin("bob")
    \/ loginUser_get \/ handleLogin_kbs \/ handleLogin_insights
    \/ handleLogout

SpecLogin == InitContext /\ [][NextLogin]_vars

\* A page load on an existing database where the reads of login and
\* registration may fail.
NextReadFaults ==
    \/ Startup
    \/ EffectSteps
    \/ handleRegister("bob") \/ handleLogin("bob")
    \/ registerUser_get \/ registerUser_put
    \/ loginUser_get \/ handleLogin_kbs \/ handleLogin_insights
    \/ handleLogout
    \/ registerUser_get_onerror \/ loginUser_get_onerror
    \/ handleLogin_kbs_onerror \/ handleLogin_insights_onerror

SpecReadFaults == InitContext /\ [][NextReadFaults]_vars

\* ---------------------------------------------------------------------------
\* Properties of the knowledge-base operations (SpecKB)
\* ---------------------------------------------------------------------------

FileIds(files) == {files[k].id : k \in 1..Len(files)}

\* Call i has completed, no store request was pending when it started, and no
\* call was made after it.
Sequential(i) == i \in done /\ i = Len(calls) /\ calls[i].settled

\* C1: when two handleAddFiles calls on the same knowledge base overlap, then
\* once both have completed the stored knowledge base holds the files of both
\* calls and its file count is the original count plus the sizes of both calls.
C1_NoLostUpdate ==
    \A i \in done, j \in done :
        (/\ j = i + 1 /\ j = Len(calls) /\ queue = <<>>
         /\ calls[i].kind = "addFiles" /\ calls[j].kind = "addFiles"
         /\ calls[i].base = calls[j].base
         /\ calls[i].settled /\ calls[j].overlapped
         /\ calls[i].base \in DOMAIN calls[i].stored)
        => LET b == calls[i].base
               original == calls[i].stored[b].files
           IN /\ b \in DOMAIN kbs
              /\ FileIds(calls[i].arg) \cup FileIds(calls[j].arg) \subseteq FileIds(kbs[b].files)
              /\ Len(kbs[b].files) = Len(original) + Len(calls[i].arg) + Len(calls[j].arg)

\* C8: after handleDeleteBase(id) on an existing knowledge base has completed,
\* neither the store nor the listing holds a record with that id (the record
\* and the files inside it are gone), and every other stored knowledge base
\* is what it was before the call.
C8_DeleteRemovesOnlyThatBase ==
    \A i \in 1..Len(calls) :
        (Sequential(i) /\ calls[i].kind = "delete" /\ calls[i].base \in DOMAIN calls[i].stored)
        => LET id == calls[i].base
               before == calls[i].stored
           IN /\ id \notin DOMAIN kbs
              /\ FindKb(getAll(kbs), id) = <<>>
              /\ FindKb(app.knowledgeBases, id) = <<>>
              /\ DOMAIN kbs = DOMAIN before \ {id}
              /\ \A k \in DOMAIN kbs : kbs[k] = before[k]

\* C8 witness: a completed delete of a knowledge base that held files, with
\* another knowledge base in the store.
C8_Witness ==
    \E i \in 1..Len(calls) :
        /\ Sequential(i) /\ calls[i].kind = "delete"
        /\ calls[i].base \in DOMAIN calls[i].stored
        /\ calls[i].stored[calls[i].base].files # <<>>
        /\ Cardinality(DOMAIN calls[i].stored) >= 2

\* C9: after handleCreateBase(name) has completed, the listing of knowledge
\* bases holds exactly one record with the generated id; it carries the given
\* name and an empty file list, and every knowledge base listed before is
\* still listed, unchanged.
C9_CreateThenList ==
    \A i \in 1..Len(calls) :
        (Sequential(i) /\ calls[i].kind = "create")
        => LET id == calls[i].base
               listing == getAll(kbs)
               found == FindKb(listing, id)
           IN /\ Cardinality({k \in 1..Len(listing) : listing[k].id = id}) = 1
              /\ found[1].name = calls[i].arg
              /\ found[1].files = <<>>
              /\ app.knowledgeBases = listing
              /\ \A k \in 1..Len(calls[i].listed) :
                    \E m \in 1..Len(listing) : listing[m] = calls[i].listed[k]
              /\ Len(listing) = Len(calls[i].listed) + 1

\* C9 witness: a completed create when another knowledge base was listed.
C9_Witness ==
    \E i \in 1..Len(calls) :
        /\ Sequential(i) /\ calls[i].kind = "create"
        /\ calls[i].listed # <<>>
        /\ FindKb(app.knowledgeBases, calls[i].base) # <<>>

\* Call i added files to a knowledge base and call i + 1 removed one of them,
\* each made when no store request was pending.
AddThenRemove(i) ==
    /\ i + 1 = Len(calls) /\ i \in done /\ Sequential(i + 1)
    /\ calls[i].settled
    /\ calls[i].kind = "addFiles" /\ calls[i + 1].kind = "deleteFile"
    /\ calls[i].base = calls[i + 1].base
    /\ calls[i].base \in DOMAIN calls[i].stored
    /\ calls[i + 1].arg \in FileIds(calls[i].arg)

\* C10: adding N files to a knowledge base and then removing one of them
\* leaves the files stored before, followed by the N - 1 others in the order
\* they were added; id, name and createdAt of the knowledge base are unchanged.
C10_AddThenRemoveOne ==
    \A i \in 1..Len(calls) :
        AddThenRemove(i)
        => LET b == calls[i].base
               prior == calls[i].stored[b]
               added == calls[i].arg
               n == CHOOSE k \in 1..Len(added) : added[k].id = calls[i + 1].arg
               others == SubSeq(added, 1, n - 1) \o SubSeq(added, n + 1, Len(added))
           IN /\ b \in DOMAIN kbs
              /\ kbs[b].files = prior.files \o others
              /\ Len(kbs[b].files) = Len(prior.files) + Len(added) - 1
              /\ kbs[b].id = prior.id
              /\ kbs[b].name = prior.name
              /\ kbs[b].createdAt = prior.createdAt
              /\ FindKb(app.knowledgeBases, b) = <<kbs[b]>>

\* C10 witness: two files were added to a knowledge base that already held a
\* file, and the first of the two was removed.
C10_Witness ==
    \E i \in 1..Len(calls) :
        /\ AddThenRemove(i)
        /\ calls[i].stored[calls[i].base].files # <<>>
        /\ Len(calls[i].arg) = 2
        /\ calls[i + 1].arg = calls[i].arg[1].id

\* ---------------------------------------------------------------------------
\* Properties of registerUser and loginUser (SpecUsers)
\* ---------------------------------------------------------------------------

\* The request at the head of the queue is continuation c and this step serves it.
Served(c) ==
    /\ Serving(c)
    /\ (Len(queue') < Len(queue) \/ Head(queue') # Head(queue))

\* C6: registerUser for a username that is stored fails with "Username already
\* taken", stores nothing and leaves the user record as it was; loginUser for a
\* username that is not stored fails with "User not found"; loginUser for a
\* stored username returns the stored record.
C6_Step ==
    LET e == Head(queue)
    IN /\ (Served("registerUser.get") /\ e.username \in DOMAIN users)
            => /\ results'[e.call] = Rejected("Username already taken")
               /\ queue' = Tail(queue)
               /\ users' = users
       /\ (Served("loginUser.get") /\ e.username \notin DOMAIN users)
            => /\ results'[e.call] = Rejected("User not found")
               /\ users' = users
       /\ (Served("loginUser.get") /\ e.username \in DOMAIN users)
            => /\ results'[e.call] = Resolved(users[e.username])
               /\ users' = users

C6_RegisterAndLoginErrors == [][C6_Step]_vars

\* C6 witness: one registration was refused, one login found no user, and one
\* login returned the record a registration had stored.
C6_Witness ==
    /\ \E c \in 1..Len(results) : results[c] = Rejected("Username already taken")
    /\ \E c \in 1..Len(results) : results[c] = Rejected("User not found")
    /\ \E c, d \in 1..Len(results) :
          /\ c < d /\ results[c].status = "ok" /\ results[d] = results[c]
          /\ GetUser(results[c].user.username) = <<results[c].user>>

\* C7: a user record is never changed after its registration: the record every
\* successful registration returned is the record stored under that username,
\* so of two concurrent registrations of one username at most one succeeds.
C7_UserRecordImmutable ==
    \A c \in 1..Len(results) :
        results[c].status = "ok"
        => GetUser(results[c].user.username) = <<results[c].user>>

\* ---------------------------------------------------------------------------
\* Properties of the chat (Spec, SpecPrivacy)
\* ---------------------------------------------------------------------------

\* The users whose submits produced the message with this id, as the question
\* or as its reply.
Owners(id) ==
    {sent[i].user : i \in {k \in 1..Len(sent) :
                              sent[k].accepted /\ id \in {sent[k].msgId, sent[k].reply}}}

OwnedBy(messages, userId) ==
    \A k \in 1..Len(messages) : Owners(messages[k].id) = {userId}

\* C2: the chat history stored for a user, and the chat history shown while a
\* user is logged in, hold only messages of that user's own sends.
C2_ChatHistoryIsPrivate ==
    /\ \A u \in DOMAIN chats : \A b \in DOMAIN chats[u] : OwnedBy(chats[u][b], u)
    /\ (Rendered =>
          \A b \in DOMAIN app.chatHistory : OwnedBy(app.chatHistory[b], app.currentUser.id))

\* C3: while a generation is in flight no second one starts: a submit made then
\* appends no user message and adds no backend request, so at most one request
\* is in flight.
C3_Step ==
    /\ Cardinality(requests') <= 1
    /\ requests # {} =>
          /\ requests' \subseteq requests
          /\ (gen'.msg # gen.msg => requests' # requests)

C3_SecondSendRejected == [][C3_Step]_vars

\* C3 witness: a submit with text was made in the chat view while a generation
\* was in flight, and was rejected.
C3_Witness ==
    \E i \in 1..Len(sent) :
        /\ sent[i].busy /\ sent[i].text # <<>> /\ ~sent[i].accepted
        /\ requests # {}

\* The step in which the backend call of request r ends.
Answered(r) == r \in requests /\ r \notin requests'

\* C4: when the backend call of a send fails, the conversation gains exactly
\* one message, directly after the user message of that send; it is a model
\* message flagged as an error whose text carries the error's message, and no
\* other message of any conversation changes.
C4_Step ==
    \A r \in requests :
        (Answered(r) /\ sent'[r.send].outcome = "error")
        => LET before == conversation(app, r.base)
               after == conversation(app', r.base)
           IN /\ Len(after) = Len(before) + 1
              /\ SubSeq(after, 1, Len(before)) = before
              /\ before # <<>>
              /\ before[Len(before)].id = r.msgId
              /\ after[Len(after)].role = "model"
              /\ after[Len(after)].isError
              /\ after[Len(after)].text = <<"Error: ">> \o sent'[r.send].error
              /\ \A b \in DOMAIN app.chatHistory \ {r.base} :
                    conversation(app', b) = app.chatHistory[b]

C4_ErrorReplyFollowsQuestion == [][C4_Step]_vars

\* C5: when the backend call of an accepted send ends, in success or in
\* failure, the interface is up with isProcessing false, and the conversation
\* holds exactly one model message for that send, after its user message.
C5_Step ==
    \A r \in requests :
        Answered(r)
        => LET after == conversation(app', r.base)
               replies == {k \in 1..Len(after) :
                              after[k].role = "model" /\ after[k].id = sent'[r.send].reply}
               asked == {k \in 1..Len(after) : after[k].id = r.msgId}
           IN /\ ~crashed'
              /\ ~app'.isProcessing
              /\ Cardinality(replies) = 1
              /\ \E q \in asked : \A k \in replies : q < k

C5_SendTerminates == [][C5_Step]_vars


\* ---------------------------------------------------------------------------
\* Properties of feedback and shared insights (SpecFeedback)
\* ---------------------------------------------------------------------------

\* The addSharedInsight requests waiting in the queue.
InsightPuts(q) == SelectSeq(q, LAMBDA e : e.cont = "handleFeedback.put")

\* The conversation shown and the 1-based position of message m in it (0: absent).
Shown == conversation(app, app.activeBaseId)
PositionOf(m) == findIndex(Shown, m) + 1

Shorter(a, b) == IF a < b THEN a ELSE b

\* The insight text the specification describes for question p and answer m.
Lesson(p, m) ==
    <<"Q: ">> \o p.text \o <<"\nA: ">>
        \o SubSeq(m.text, 1, Shorter(Len(m.text), 200)) \o <<"...">>

\* This step records the tag on message m and changes nothing else of the
\* conversations.
OnlyTagged(m, type) ==
    /\ DOMAIN app'.chatHistory = DOMAIN app.chatHistory
    /\ \A b \in DOMAIN app.chatHistory :
          /\ Len(app'.chatHistory[b]) = Len(app.chatHistory[b])
          /\ \A k \in 1..Len(app.chatHistory[b]) :
                app'.chatHistory[b][k] =
                    IF b = app.activeBaseId /\ app.chatHistory[b][k].id = m
                    THEN [app.chatHistory[b][k] EXCEPT !.feedback = type]
                    ELSE app.chatHistory[b][k]

\* C11: a thumbs-up on model message M whose preceding message P is the user
\* question issues exactly one addSharedInsight, for a new insight whose content
\* is "Q: " P.text "\nA: " followed by the first 200 characters of M.text (all
\* of it when shorter) and "..."; serving that request adds exactly that one
\* insight to the store.  A thumbs-down issues no addSharedInsight, leaves the
\* store of insights as it is and only records the tag.
C11_Step ==
    /\ \A m \in 1..MaxMsgs :
          LET k == PositionOf(m)
          IN /\ (handleFeedback(m, "thumbs_up") /\ k > 1 /\ Shown[k - 1].role = "user")
                 => /\ Len(InsightPuts(queue')) = Len(InsightPuts(queue)) + 1
                    /\ LET new == queue'[Len(queue')].insight
                       IN /\ queue'[Len(queue')].cont = "handleFeedback.put"
                          /\ new.content = Lesson(Shown[k - 1], Shown[k])
                          /\ new.id \notin DOMAIN insights
                          /\ \A e \in 1..Len(queue) :
                                queue[e].cont = "handleFeedback.put" => queue[e].insight.id # new.id
                    /\ insights' = insights
                    /\ OnlyTagged(m, "thumbs_up")
             /\ handleFeedback(m, "thumbs_down")
                 => /\ InsightPuts(queue') = InsightPuts(queue)
                    /\ insights' = insights
                    /\ OnlyTagged(m, "thumbs_down")
    /\ Served("handleFeedback.put")
          => LET new == Head(queue).insight
             IN /\ new.id \notin DOMAIN insights
                /\ DOMAIN insights' = DOMAIN insights \cup {new.id}
                /\ insights'[new.id] = new
                /\ \A i \in DOMAIN insights : insights'[i] = insights[i]

C11_ThumbsUpAddsOneInsight == [][C11_Step]_vars

\* C11 witness: the store holds an insight made from an answer longer than 200
\* characters, cut to 200, and a message of the conversation is tagged
\* thumbs_down.
C11_Witness ==
    /\ \E i \in DOMAIN insights :
          insights[i].content =
              <<"Q: ", "q", "\nA: ">> \o SubSeq(LongAnswer, 1, 200) \o <<"...">>
    /\ \E k \in 1..Len(Shown) : Shown[k].feedback = "thumbs_down"

\* C12: a thumbs-up on a message that is first in its conversation, or whose
\* preceding message is itself a model message, issues no addSharedInsight:
\* the insights are unchanged and only the tag is recorded.
C12_Step ==
    \A m \in 1..MaxMsgs :
        LET k == PositionOf(m)
        IN (/\ handleFeedback(m, "thumbs_up")
            /\ (k = 1 \/ (k > 1 /\ Shown[k - 1].role = "model")))
           => /\ InsightPuts(queue') = InsightPuts(queue)
              /\ insights' = insights
              /\ OnlyTagged(m, "thumbs_up")

C12_NoInsightWithoutQuestion == [][C12_Step]_vars

\* The insights of set S, oldest first.
RECURSIVE Chronological(_)
Chronological(S) ==
    IF S = {} THEN <<>>
    ELSE LET x == CHOOSE x \in S : \A y \in S : x.timestamp <= y.timestamp
         IN <<x>> \o Chronological(S \ {x})

\* The insights of list with the n greatest timestamps, oldest first.
Latest(list, n) ==
    LET S == {list[i] : i \in 1..Len(list)}
    IN Chronological({x \in S : Cardinality({y \in S : y.timestamp > x.timestamp}) < n})

\* C13: the system instruction built for a request lists exactly the 10
\* accumulated insights with the greatest timestamps (all of them when there
\* are fewer), oldest first, and has no insights section when there are none.
C13_Step ==
    \A text \in UserTexts, n \in 0..MaxAttach :
        (handleSubmit(text, n) /\ requests' # requests)
        => LET r == CHOOSE r \in requests' \ requests : TRUE
               recent == Latest(app.sharedInsights, 10)
           IN r.insightText =
                 IF recent = <<>> THEN <<>>
                 ELSE <<"\n\nTEAM SHARED LEARNINGS (Prioritize these patterns):\n">>
                         \o join([i \in 1..Len(recent) |-> <<Bullet>> \o recent[i].content])

C13_LatestInsightsInOrder == [][C13_Step]_vars

\* C14: no step edits or removes a stored insight; a thumbs-up on a message
\* that has a preceding message issues one addSharedInsight under an id no
\* stored or pending insight has, whatever the insights already stored, and
\* serving it makes the store one insight larger.
C14_Step ==
    /\ \A i \in DOMAIN insights : i \in DOMAIN insights' /\ insights'[i] = insights[i]
    /\ \A m \in 1..MaxMsgs :
          (handleFeedback(m, "thumbs_up") /\ PositionOf(m) > 1)
          => /\ Len(InsightPuts(queue')) = Len(InsightPuts(queue)) + 1
             /\ LET new == queue'[Len(queue')].insight
                    pending == InsightPuts(queue)
                IN /\ new.id \notin DOMAIN insights
                   /\ \A e \in 1..Len(pending) : pending[e].insight.id # new.id
    /\ Served("handleFeedback.put")
          => Cardinality(DOMAIN insights') = Cardinality(DOMAIN insights) + 1

C14_InsightsOnlyAccumulate == [][C14_Step]_vars

\* C14 witness: two thumbs-ups on the same message left two insights of equal
\* content in the store, and they are still there after a thumbs-down, the
\* deletion of their knowledge base and a logout.
C14_Witness ==
    /\ \E i, j \in DOMAIN insights :
          /\ i # j /\ insights[i].content = insights[j].content
          /\ insights[i].sourceBaseId = insights[j].sourceBaseId
          /\ insights[i].sourceBaseId \notin DOMAIN kbs
    /\ app.currentUser = NoUser
    /\ \E u \in DOMAIN chats :
          \E b \in DOMAIN chats[u] :
              \E k \in 1..Len(chats[u][b]) : chats[u][b][k].feedback = "thumbs_down"

\* The (source, context) pairs of the markers found in text, each pair once, in
\* the order of their first marker.
DistinctPairs(text) ==
    LET pairs == [k \in 1..Len(exec(text, 1)) |-> Cited(exec(text, 1)[k])]
        first == KeyOrder({k \in 1..Len(pairs) : \A j \in 1..(k - 1) : pairs[j] # pairs[k]})
    IN [k \in 1..Len(first) |-> pairs[first[k]]]

\* text without the spans of its markers.
RECURSIVE Unmarked(_, _)
Unmarked(text, i) ==
    IF i > Len(text) THEN <<>>
    ELSE IF \E k \in 1..i : MatchAt(text, k) # <<>> /\ MatchAt(text, k)[1].last >= i
         THEN Unmarked(text, i + 1)
         ELSE <<text[i]>> \o Unmarked(text, i + 1)

\* C15: the message made from a response carries one citation per distinct
\* (source, context) pair of its markers, in first-seen order, and, when it has
\* markers, shows the response without any marker span.
C15_Step ==
    \A r \in requests, t \in CitedTexts :
        (generateResponse_ok(r, t) /\ ~crashed /\ r.base \in DOMAIN app.chatHistory)
        => LET msgs == app'.chatHistory[r.base]
               msg == msgs[Len(msgs)]
           IN /\ msg.citations = <<DistinctPairs(t)>>
              /\ exec(t, 1) # <<>> => msg.text = trim(Unmarked(t, 1))

C15_OneCitationPerPair == [][C15_Step]_vars

\* C16: a failing put or delete makes the operation fail for its caller: the
\* handler awaiting it does not go on, and a registerUser call is rejected.
C16_Step ==
    /\ put_onerror
          => /\ queue' = Tail(queue)
             /\ Head(queue).cont = "registerUser.put"
                   => results'[Head(queue).call].status = "error"
    /\ deleteKnowledgeBase_error => queue' = Tail(queue)

C16_WriteFailurePropagates == [][C16_Step]_vars

\* C17: when the write behind a file upload, a file or knowledge-base deletion,
\* a chat-history save or an insight save fails, the user is shown an error and
\* the upload is not reported as successful.
C17_Step ==
    /\ (/\ put_onerror
        /\ Head(queue).cont \in {"handleAddFiles.put", "handleDeleteFile.put",
                                 "handleFeedback.put", "persistChat"})
          => app'.error # <<>> /\ app'.uploadStatus # "success"
    /\ deleteKnowledgeBase_error => app'.error # <<>>

C17_WriteFailureSurfaced == [][C17_Step]_vars

\* C18: a failing get resolves to null and a failing getAll to the empty list,
\* and neither changes a store: the login then reports "User not found", the
\* registration goes on to its put as for a free username, and the lists shown
\* after a login are empty.
C18_Step ==
    /\ (\/ registerUser_get_onerror \/ loginUser_get_onerror
        \/ handleLogin_kbs_onerror \/ handleLogin_insights_onerror)
          => UNCHANGED stores
    /\ loginUser_get_onerror
          => /\ results'[Head(queue).call] = Rejected("User not found")
             /\ app' = app
    /\ registerUser_get_onerror
          => /\ results'[Head(queue).call].status = "pending"
             /\ queue'[Len(queue')].cont = "registerUser.put"
    /\ handleLogin_kbs_onerror => app'.knowledgeBases = <<>>
    /\ handleLogin_insights_onerror => app'.sharedInsights = <<>>

C18_ReadFailureIsAbsence == [][C18_Step]_vars

\* C18 witness: a login of the stored account was answered "User not found",
\* and after a later login the lists shown are empty while the stores are not.
C18_Witness ==
    /\ "bob" \in DOMAIN users
    /\ \E i \in 1..Len(results) : results[i] = Rejected("User not found")
    /\ app.currentUser # NoUser /\ queue = <<>>
    /\ app.knowledgeBases = <<>> /\ kbs # <<>>
    /\ app.sharedInsights = <<>> /\ insights # <<>>

\* C19: an upload batch is handled file by file: no store is written by the
\* handler itself, no file above the ceiling is added, and the within-limit
\* files of the batch, if any, are all added to the knowledge base by one
\* saveKnowledgeBase.
C19_Step ==
    \A id \in KbIds, sizes \in [1..1 -> FileSizes] \cup [1..2 -> FileSizes] :
        LET kb == FindKb(app.knowledgeBases, id)
            within == Cardinality({i \in 1..Len(sizes) : ~Oversized(sizes[i])})
        IN (handleFileChange(id, sizes) /\ kb # <<>>)
           => /\ UNCHANGED stores
              /\ within = 0 => queue' = queue
              /\ within > 0
                    => /\ Len(queue') = Len(queue) + 1
                       /\ queue'[Len(queue')].cont = "handleAddFiles.put"
                       /\ Len(queue'[Len(queue')].kb.files) = Len(kb[1].files) + within

C19_OversizedFileSkipped == [][C19_Step]_vars

\* initGlobal ended without setIsLoaded(true).
StartupFailed ==
    /\ ~app.isLoaded
    /\ \A i \in 1..Len(queue) : queue[i].cont \notin StartupConts

\* C20: once startup has failed on opening the store, the loaded flag stays
\* false and no login, registration, knowledge-base or chat operation has been
\* or is made, and no store is written.
C20_Step ==
    StartupFailed
    => /\ results = <<>> /\ calls = <<>> /\ sent = <<>>
       /\ app.currentUser = NoUser
       /\ StartupFailed'
       /\ results' = <<>> /\ calls' = <<>> /\ sent' = <<>>
       /\ UNCHANGED stores

C20_OpenFailureIsFatal == [][C20_Step]_vars

\* C20 witness: the store opened for getApiKey but not for a later read of
\* initGlobal: the key is loaded, the application is not.
C20_Witness ==
    /\ StartupFailed /\ queue = <<>>
    /\ app.apiKey = <<"key">>
    /\ "bob" \in DOMAIN users

\* C21: once a handleDeleteBase(id) has run to its end, the active selection
\* is not id.
C21_DeletedBaseNotActive ==
    \A i \in done : calls[i].kind = "delete" => app.activeBaseId # calls[i].base

\* C22: the turns sent for a send are the prior messages of the conversation in
\* order, each with its role, one part per attachment and then its text if it
\* has one, followed by one user turn made of the files of the knowledge base,
\* the new attachments and the new text; the new message is not among the
\* prior turns.
C22_Step ==
    \A text \in UserTexts \cup {<<>>}, n \in 0..MaxAttach :
        (handleSubmit(text, n) /\ requests' # requests)
        => LET r == CHOOSE r \in requests' \ requests : TRUE
               prior == Shown
               files == activeBase[1].files
               last == r.contents[Len(r.contents)]
           IN /\ Len(r.contents) = Len(prior) + 1
              /\ \A k \in 1..Len(prior) :
                    /\ r.contents[k].role = prior[k].role
                    /\ Len(r.contents[k].parts) =
                          Len(prior[k].attachments) + (IF prior[k].text = <<>> THEN 0 ELSE 1)
                    /\ \A a \in 1..Len(prior[k].attachments) :
                          r.contents[k].parts[a] =
                              [inlineData |-> [attachment |-> prior[k].attachments[a].id]]
                    /\ prior[k].text # <<>>
                          => r.contents[k].parts[Len(r.contents[k].parts)] = [text |-> prior[k].text]
              /\ last.role = "user"
              /\ Len(last.parts) = Len(files) + n + 1
              /\ \A f \in 1..Len(files) :
                    last.parts[f] = [inlineData |-> [file |-> files[f].id]]
              /\ \A a \in 1..n :
                    last.parts[Len(files) + a] =
                        [inlineData |-> [attachment |-> gen.attachment + a]]
              /\ last.parts[Len(last.parts)] = [text |-> text]

C22_TurnsSent == [][C22_Step]_vars

\* C22 witness: a request in flight whose prior turns are a question with an
\* attachment and its answer, and whose final turn holds a file of the
\* knowledge base, a new attachment and the new text.
C22_Witness ==
    \E r \in requests :
        /\ Len(r.contents) = 3
        /\ r.contents[1] = [role |-> "user",
                            parts |-> <<[inlineData |-> [attachment |-> 1]], [text |-> <<"q">>]>>]
        /\ r.contents[2] = [role |-> "model", parts |-> <<[text |-> <<"a">>]>>]
        /\ r.contents[3] = [role |-> "user",
                            parts |-> <<[inlineData |-> [file |-> 1]],
                                        [inlineData |-> [attachment |-> 2]],
                                        [text |-> <<"q">>]>>]

\* Messages a and b agree on every field but feedback.
SameButFeedback(a, b) == [a EXCEPT !.feedback = "none"] = [b EXCEPT !.feedback = "none"]

\* Every message of mapping `old` that is still in mapping `new`, under the
\* same knowledge base, differs there in nothing but its feedback.
OnlyFeedbackChanged(old, new) ==
    \A b \in DOMAIN old \cap DOMAIN new :
        \A i \in 1..Len(old[b]), j \in 1..Len(new[b]) :
            old[b][i].id = new[b][j].id => SameButFeedback(old[b][i], new[b][j])

\* C23: no step changes a field other than feedback of a chat message, in
\* memory or stored; handleFeedback(messageId, tag) sets the feedback of the
\* message with that id in the active conversation and changes no other
\* message, no other field, no order or number of messages and no stored
\* conversation.
C23_Step ==
    /\ OnlyFeedbackChanged(app.chatHistory, app'.chatHistory)
    /\ \A u \in DOMAIN chats \cap DOMAIN chats' : OnlyFeedbackChanged(chats[u], chats'[u])
    /\ \A m \in 1..MaxMsgs, type \in {"thumbs_up", "thumbs_down"} :
          handleFeedback(m, type)
          => /\ OnlyTagged(m, type)
             /\ Shown[PositionOf(m)].id = m
             /\ app'.chatHistory[app.activeBaseId][PositionOf(m)].feedback = type
             /\ chats' = chats

C23_OnlyFeedbackChanges == [][C23_Step]_vars

\* C23 witness: a stored conversation of two questions and two answers whose
\* first answer was tagged thumbs_up and then thumbs_down.
C23_Witness ==
    \E u \in DOMAIN chats :
        \E b \in DOMAIN chats[u] :
            /\ Len(chats[u][b]) = 4
            /\ chats[u][b][2].feedback = "thumbs_down"
            /\ chats[u][b][4].feedback = "none"
            /\ Cardinality(DOMAIN insights) >= 1

\* C24: a model message has a citations field only if its citation list is
\* not empty.
C24_CitationsOnlyIfAny ==
    \A b \in DOMAIN app.chatHistory :
        \A k \in 1..Len(app.chatHistory[b]) :
            LET msg == app.chatHistory[b][k]
            IN msg.role = "model" /\ msg.citations # <<>> => msg.citations[1] # <<>>

\* C25: bob's mapping is persisted when he logs in and he neither sends a
\* message nor gives feedback: the mapping persisted under his id stays what
\* it was.
C25_LoginKeepsHistory == 1 \in DOMAIN chats /\ chats[1] = StoredChats

\* The delete of a handleDeleteBase(id) call has been applied to the store.
DeleteApplied(id) ==
    \E i \in 1..Len(calls) :
        /\ calls[i].kind = "delete" /\ calls[i].base = id
        /\ \A e \in 1..Len(queue) :
              ~(queue[e].cont = "handleDeleteBase.delete" /\ queue[e].call = i)

\* C26: a knowledge base whose delete has been applied is not stored again.
C26_NoResurrection == \A id \in KbIds : DeleteApplied(id) => id \notin DOMAIN kbs

C28_ReadFailureKeepsData ==
    /\ "bob" \in DOMAIN users
    /\ users["bob"] = [id |-> 1, username |-> "bob", createdAt |-> 0]

\* C29: every save issued by the knowledge-base persistence effect carries a
\* knowledge-base record; none is issued for an absent value.
C29_SavesAreRecords ==
    \A e \in 1..Len(queue) : queue[e].cont = "persistKb" => queue[e].value # <<>>

\* C30: the message produced for a send is appended to the conversation of
\* the knowledge base the send was issued on, directly after the send's user
\* message, and the append does not fault.
C30_Step ==
    \A r \in requests :
        (/\ ~crashed
         /\ \/ \E text \in ResponseTexts : generateResponse_ok(r, text)
            \/ \E m \in ErrorMessages : generateResponse_error(r, m))
        => /\ ~crashed'
           /\ r.base \in DOMAIN app'.chatHistory
           /\ LET thread == app'.chatHistory[r.base]
                  n == Len(thread)
              IN /\ n >= 2
                 /\ thread[n].id = sent'[r.send].reply
                 /\ thread[n - 1].id = r.msgId

C30_ReplyFollowsItsSend == [][C30_Step]_vars

====
